---- MODULE Spec2Model ----
(***************************************************************************)
(* Model of the Decode class of nrf24l01p-decode.py: the simulated nRF24L01+*)
(* register file, the transaction processor (update and the command         *)
(* handlers it dispatches to), reset, and the configuration queries.        *)
(*                                                                          *)
(* The model is of one Decode object under an arbitrary caller: update and  *)
(* reset may be called in any order, and the outcome of each call (normal   *)
(* return or the exception that escapes it) is recorded in `last`.          *)
(* parse_file is the caller that stops at the first exception.              *)
(*                                                                          *)
(* The decode log keeps, for every entry, the parts that _msg formats (the  *)
(* transaction id, the annotation, the command name, the register, the      *)
(* delta and the payload bytes); the rendering of these parts to text is    *)
(* not modelled.                                                            *)
(***************************************************************************)
EXTENDS Integers, Sequences, FiniteSets, TLC

(***************************************************************************)
(* Bounds of the model.                                                     *)
(***************************************************************************)
\* number of calls (update or reset) made on the object
MaxSteps == 2

(***************************************************************************)
(* Bytes and the bitwise operators of Python on them.                       *)
(***************************************************************************)
Pow2(i) == <<1, 2, 4, 8, 16, 32, 64, 128>>[i + 1]

\* ((val >> bit) & 1)
bit_is_set(val, bit) == (val \div Pow2(bit)) % 2

\* a & b on bytes
BitAnd(a, b) ==
      (a % 2) * (b % 2)
    + ((a \div 2) % 2) * ((b \div 2) % 2) * 2
    + ((a \div 4) % 2) * ((b \div 4) % 2) * 4
    + ((a \div 8) % 2) * ((b \div 8) % 2) * 8
    + ((a \div 16) % 2) * ((b \div 16) % 2) * 16
    + ((a \div 32) % 2) * ((b \div 32) % 2) * 32
    + ((a \div 64) % 2) * ((b \div 64) % 2) * 64
    + ((a \div 128) % 2) * ((b \div 128) % 2) * 128

\* a | b on bytes
BitOr(a, b) == a + b - BitAnd(a, b)

\* a & ~b on bytes
BitAndNot(a, b) == a - BitAnd(a, b)

\* val | (1 << bit)
set_bit(val, bit) == BitOr(val, Pow2(bit))

\* val & ~(1 << bit)
clear_bit(val, bit) == BitAndNot(val, Pow2(bit))

(***************************************************************************)
(* The catalog: registers, commands, field positions.                       *)
(***************************************************************************)
RegAddrs == (0..23) \cup {28, 29}

Five(b) == <<b, b, b, b, b>>

\* addr |-> (description, initial value, mask of the writable bits)
REGISTERS ==
    [a \in RegAddrs |->
        CASE a = 0  -> [desc |-> "CONFIG",      init |-> <<8>>,     mask |-> 127]
          [] a = 1  -> [desc |-> "EN_AA",       init |-> <<63>>,    mask |-> 63]
          [] a = 2  -> [desc |-> "EN_RXADDR",   init |-> <<3>>,     mask |-> 63]
          [] a = 3  -> [desc |-> "SETUP_AW",    init |-> <<3>>,     mask |-> 3]
          [] a = 4  -> [desc |-> "SETUP_RETR",  init |-> <<3>>,     mask |-> 255]
          [] a = 5  -> [desc |-> "RF_CH",       init |-> <<2>>,     mask |-> 127]
          [] a = 6  -> [desc |-> "RF_SETUP",    init |-> <<14>>,    mask |-> 191]
          [] a = 7  -> [desc |-> "STATUS",      init |-> <<14>>,    mask |-> 112]
          [] a = 8  -> [desc |-> "OBSERVE_TX",  init |-> <<0>>,     mask |-> 0]
          [] a = 9  -> [desc |-> "RPD",         init |-> <<0>>,     mask |-> 0]
          [] a = 10 -> [desc |-> "RX_ADDR_P0",  init |-> Five(231), mask |-> 255]
          [] a = 11 -> [desc |-> "RX_ADDR_P1",  init |-> Five(194), mask |-> 255]
          [] a = 12 -> [desc |-> "RX_ADDR_P2",  init |-> <<195>>,   mask |-> 255]
          [] a = 13 -> [desc |-> "RX_ADDR_P3",  init |-> <<196>>,   mask |-> 255]
          [] a = 14 -> [desc |-> "RX_ADDR_P4",  init |-> <<197>>,   mask |-> 255]
          [] a = 15 -> [desc |-> "RX_ADDR_P5",  init |-> <<198>>,   mask |-> 255]
          [] a = 16 -> [desc |-> "TX_ADDR",     init |-> Five(231), mask |-> 255]
          [] a = 17 -> [desc |-> "RX_PW_P0",    init |-> <<0>>,     mask |-> 63]
          [] a = 18 -> [desc |-> "RX_PW_P1",    init |-> <<0>>,     mask |-> 63]
          [] a = 19 -> [desc |-> "RX_PW_P2",    init |-> <<0>>,     mask |-> 63]
          [] a = 20 -> [desc |-> "RX_PW_P3",    init |-> <<0>>,     mask |-> 63]
          [] a = 21 -> [desc |-> "RX_PW_P4",    init |-> <<0>>,     mask |-> 63]
          [] a = 22 -> [desc |-> "RX_PW_P5",    init |-> <<0>>,     mask |-> 63]
          [] a = 23 -> [desc |-> "FIFO_STATUS", init |-> <<17>>,    mask |-> 0]
          [] a = 28 -> [desc |-> "DYNPD",       init |-> <<0>>,     mask |-> 63]
          [] a = 29 -> [desc |-> "FEATURE",     init |-> <<0>>,     mask |-> 7]]

\* REGISTER_LOOKUP: the addresses the code looks up by name
CONFIG == 0
EN_AA == 1
SETUP_RETR == 4
RF_CH == 5
RF_SETUP == 6
STATUS == 7
FIFO_STATUS == 23
FEATURE == 29
RX_ADDR_P0 == 10
TX_ADDR == 16

RW_REGISTER_CMD_MASK == 224
RW_REGISTER_VALUE_MASK == 31
RW_REGISTER_MAX_INDEX == 29
W_ACK_PAYLOAD_VALUE_MASK == 7
W_ACK_PAYLOAD_CMD_MASK == 248

CmdCodes == {0, 32, 97, 160, 176, 225, 226, 227, 80, 96, 168, 255}

\* opcode |-> (description, (min, max) data length)
COMMANDS ==
    [c \in CmdCodes |->
        CASE c = 0   -> [name |-> "R_REGISTER",          min |-> 1, max |-> 5]
          [] c = 32  -> [name |-> "W_REGISTER",          min |-> 1, max |-> 5]
          [] c = 97  -> [name |-> "R_RX_PAYLOAD",        min |-> 1, max |-> 32]
          [] c = 160 -> [name |-> "W_TX_PAYLOAD",        min |-> 1, max |-> 32]
          [] c = 176 -> [name |-> "W_TX_PAYLOAD_NO_ACK", min |-> 1, max |-> 32]
          [] c = 225 -> [name |-> "FLUSH_TX",            min |-> 0, max |-> 1]
          [] c = 226 -> [name |-> "FLUSH_RX",            min |-> 0, max |-> 0]
          [] c = 227 -> [name |-> "REUSE_TX_PL",         min |-> 0, max |-> 0]
          [] c = 80  -> [name |-> "ACTIVATE",            min |-> 1, max |-> 1]
          [] c = 96  -> [name |-> "R_RX_PL_WID",         min |-> 1, max |-> 1]
          [] c = 168 -> [name |-> "W_ACK_PAYLOAD",       min |-> 1, max |-> 32]
          [] c = 255 -> [name |-> "NOP",                 min |-> 0, max |-> 0]]

\* the names REGISTER_FIELD_LOOKUP has a bit position for
FieldNames ==
    {"PRIM_RX", "PWR_UP", "CRC0", "EN_CRC", "RF_DR_HIGH", "RF_DR_LOW",
     "STATUS.TX_FULL", "MAX_RT", "TX_DS", "RX_DR", "RX_EMPTY", "RX_FULL",
     "TX_EMPTY", "FIFO_STATUS.TX_FULL", "TX_REUSE", "EN_DYN_ACK",
     "EN_ACK_PAY", "EN_DPL"}

REGISTER_FIELD_LOOKUP ==
    [f \in FieldNames |->
        CASE f = "PRIM_RX"             -> 0
          [] f = "PWR_UP"              -> 1
          [] f = "CRC0"                -> 2
          [] f = "EN_CRC"              -> 3
          [] f = "RF_DR_HIGH"          -> 3
          [] f = "RF_DR_LOW"           -> 5
          [] f = "STATUS.TX_FULL"      -> 0
          [] f = "MAX_RT"              -> 4
          [] f = "TX_DS"               -> 5
          [] f = "RX_DR"               -> 6
          [] f = "RX_EMPTY"            -> 0
          [] f = "RX_FULL"             -> 1
          [] f = "TX_EMPTY"            -> 4
          [] f = "FIFO_STATUS.TX_FULL" -> 5
          [] f = "TX_REUSE"            -> 6
          [] f = "EN_DYN_ACK"          -> 0
          [] f = "EN_ACK_PAY"          -> 1
          [] f = "EN_DPL"              -> 2]

\* These STATUS fields are cleared by writing to them.
XOR_BIT_MASKS ==
    << Pow2(REGISTER_FIELD_LOOKUP["RX_DR"]),
       Pow2(REGISTER_FIELD_LOOKUP["TX_DS"]),
       Pow2(REGISTER_FIELD_LOOKUP["MAX_RT"]) >>

BEKEN_BANK_SWITCH_DATA == 83

\* packed_index=None, the default of _update's last parameter
NoIndex == -1

(***************************************************************************)
(* The state of a Decode object.                                            *)
(***************************************************************************)
VARIABLES
    reg_values,                 \* addr |-> list of the register's bytes
    messages,                   \* the decode log
    used_channels,              \* RF channels seen, in order of appearance
    tx_count,
    rx_count,
    timestamps,                 \* _timestamps: command name |-> last ts
    beken_bank_switch_active,   \* _beken_bank_switch_active
    beken_detected,
    stderr,                     \* what the calls wrote to sys.stderr
    last,                       \* the last call and how it ended
    pre,                        \* the object's state before the last call
    nsteps                      \* number of calls made so far

vars == <<reg_values, messages, used_channels, tx_count, rx_count, timestamps,
          beken_bank_switch_active, beken_detected, stderr, last, pre, nsteps>>

\* the object's attributes (and the stderr stream) as one value, which the
\* handlers below take and return
State ==
    [reg_values    |-> reg_values,
     messages      |-> messages,
     used_channels |-> used_channels,
     tx_count      |-> tx_count,
     rx_count      |-> rx_count,
     timestamps    |-> timestamps,
     bank          |-> beken_bank_switch_active,
     beken         |-> beken_detected,
     stderr        |-> stderr]

\* the value reset() copies into reg_values[addr]: list(init_value)
ResetValue(addr) == REGISTERS[addr].init

\* variant of reset: self.used_channels is left as it is
reset_keeps_channels(d) ==
    [reg_values    |-> [a \in RegAddrs |-> ResetValue(a)],
     messages      |-> <<>>,
     used_channels |-> d.used_channels,
     tx_count      |-> 0,
     rx_count      |-> 0,
     timestamps    |-> <<>>,
     bank          |-> FALSE,
     beken         |-> FALSE,
     stderr        |-> d.stderr]

\* the attributes as reset() leaves them; sys.stderr is not an attribute
reset(d) ==
    [reg_values    |-> [a \in RegAddrs |-> ResetValue(a)],
     messages      |-> <<>>,
     used_channels |-> <<REGISTERS[RF_CH].init[1]>>,
     tx_count      |-> 0,
     rx_count      |-> 0,
     timestamps    |-> <<>>,
     bank          |-> FALSE,
     beken         |-> FALSE,
     stderr        |-> d.stderr]

(***************************************************************************)
(* Results of a handler: the state it leaves and the exception it raises.   *)
(***************************************************************************)
Ok(d) == [d |-> d, exc |-> "none"]
Raise(d, e) == [d |-> d, exc |-> e]

\* r; F(state after r), unless r raised
Then(r, F(_)) == IF r.exc # "none" THEN r ELSE F(r.d)

\* absent optional value / present optional value
None == <<>>
Some(x) == <<x>>

\* _msg: append one entry to the decode log
msg(d, tid, annot, cmd, reg, delta, seq) ==
    [d EXCEPT !.messages =
        Append(@, [tid |-> tid, annot |-> annot, cmd |-> cmd, reg |-> reg,
                   delta |-> delta, seq |-> seq])]

\* _read_state_reg(reg, bit)
read_state_reg(regs, reg, bit) ==
    bit_is_set(regs[reg][1], REGISTER_FIELD_LOOKUP[bit])

\* _clear_state_reg_bit(reg, bit); an unknown field name is a KeyError
clear_state_reg_bit(d, reg, bit) ==
    IF bit \notin DOMAIN REGISTER_FIELD_LOOKUP THEN Raise(d, "KeyError")
    ELSE Ok([d EXCEPT !.reg_values[reg][1] =
                 clear_bit(@, REGISTER_FIELD_LOOKUP[bit])])

\* _set_state_reg_bit(reg, bit)
set_state_reg_bit(d, reg, bit) ==
    IF bit \notin DOMAIN REGISTER_FIELD_LOOKUP THEN Raise(d, "KeyError")
    ELSE Ok([d EXCEPT !.reg_values[reg][1] =
                 set_bit(@, REGISTER_FIELD_LOOKUP[bit])])

\* variant of get_operational_mode: FIFO_STATUS is not looked at
get_operational_mode_no_fifo(regs) ==
    IF read_state_reg(regs, CONFIG, "PWR_UP") = 0 THEN "POWER_DOWN"
    ELSE IF read_state_reg(regs, CONFIG, "PRIM_RX") = 0
         THEN "STANDBY"
         ELSE "PRX"

get_operational_mode(regs) ==
    IF read_state_reg(regs, CONFIG, "PWR_UP") = 0 THEN "POWER_DOWN"
    ELSE IF read_state_reg(regs, CONFIG, "PRIM_RX") = 0
         THEN IF read_state_reg(regs, FIFO_STATUS, "TX_EMPTY") = 1
              THEN "STANDBY"
              ELSE "PTX"
         ELSE "PRX"

(***************************************************************************)
(* The command handlers.  Each takes the state d and the arguments update   *)
(* passes (ts, transaction_id, mosi_data, miso_data, packed_index) and      *)
(* gives the state it leaves and the exception it raises, if any.           *)
(***************************************************************************)
reg_width(packed_index) == Len(REGISTERS[packed_index].init)

\* variant of store_byte: self.reg_values[packed_index].append(data)
store_byte_append(val, i, data) == Append(val, data)

\* self.reg_values[packed_index][i] = data
store_byte(val, i, data) == [val EXCEPT ![i] = data]

\* for i, data in enumerate(miso_data): reg_values[idx][i] = data; _msg(...)
\* the log entry is appended inside the loop, once per byte
RECURSIVE r_register_loop(_, _, _, _, _)
r_register_loop(d, tid, miso_data, packed_index, i) ==
    IF i > Len(miso_data) THEN d
    ELSE r_register_loop(
             msg([d EXCEPT !.reg_values[packed_index] =
                               store_byte(@, i, miso_data[i])],
                 tid, "", "R_REGISTER", packed_index, None, Some(miso_data)),
             tid, miso_data, packed_index, i + 1)

r_register(d, ts, tid, mosi_data, miso_data, packed_index) ==
    IF packed_index > RW_REGISTER_MAX_INDEX
    THEN Ok(msg(d, tid, "ERROR: Invalid index", "R_REGISTER", packed_index,
                None, None))
    ELSE IF packed_index \notin DOMAIN REGISTERS THEN Raise(d, "KeyError")
    ELSE IF d.bank
    THEN Ok(msg(d, tid, "IGNORED: BEKEN-SPECIFIC COMMAND", "R_REGISTER",
                packed_index, None, Some(miso_data)))
    ELSE IF Len(mosi_data) # reg_width(packed_index)
    THEN Ok(msg(d, tid, "IGNORED: INVALID DATA LEN", "W_REGISTER",
                packed_index, None, Some(mosi_data)))
    ELSE Ok(r_register_loop(d, tid, miso_data, packed_index, 1))

\* variant of status_clear: val ^= xor_mask, which sets a flag that was clear
RECURSIVE status_clear_toggle(_, _, _)
status_clear_toggle(val, data, k) ==
    IF k > Len(XOR_BIT_MASKS) THEN val
    ELSE status_clear_toggle(IF BitAnd(data, XOR_BIT_MASKS[k]) # 0
                             THEN BitOr(val, XOR_BIT_MASKS[k])
                                  - BitAnd(val, XOR_BIT_MASKS[k])
                             ELSE val,
                             data, k + 1)

\* for xor_mask in XOR_BIT_MASKS: if (data & xor_mask): val &= ~xor_mask
RECURSIVE status_clear(_, _, _)
status_clear(val, data, k) ==
    IF k > Len(XOR_BIT_MASKS) THEN val
    ELSE status_clear(IF BitAnd(data, XOR_BIT_MASKS[k]) # 0
                      THEN BitAndNot(val, XOR_BIT_MASKS[k])
                      ELSE val,
                      data, k + 1)

\* variant of w_register_val: the data byte is stored without the mask
w_register_val_unmasked(packed_index, val, data) ==
    IF packed_index = STATUS
    THEN status_clear(val, data, 1)
    ELSE data

\* the value W_REGISTER stores for one byte
w_register_val(packed_index, val, data) ==
    IF packed_index = STATUS
    THEN status_clear(val, data, 1)
    ELSE BitOr(BitAndNot(val, REGISTERS[packed_index].mask),
               BitAnd(data, REGISTERS[packed_index].mask))

\* variant of w_register_mode_ok: the write is executed in every mode
w_register_mode_any(op) == TRUE

\* the guard of the write: the modes in which W_REGISTER is executed
w_register_mode_ok(op) == op = "POWER_DOWN" \/ op = "STANDBY"

\* ch = mosi_data[-1]; if (not ch in self.used_channels): append
note_channel(used, mosi_data) ==
    LET ch == mosi_data[Len(mosi_data)]
    IN  IF \E k \in 1..Len(used) : used[k] = ch THEN used ELSE Append(used, ch)

w_register(d, ts, tid, mosi_data, miso_data, packed_index) ==
    IF packed_index > RW_REGISTER_MAX_INDEX
    THEN Ok(msg(d, tid, "ERROR: Invalid index", "W_REGISTER", packed_index,
                None, None))
    ELSE IF packed_index \notin DOMAIN REGISTERS THEN Raise(d, "KeyError")
    ELSE
    LET d1 == IF d.bank
              THEN msg(d, tid, "IGNORED: BEKEN-SPECIFIC COMMAND", "W_REGISTER",
                       packed_index, None, Some(mosi_data))
              ELSE d
        op == get_operational_mode(d1.reg_values)
    IN  IF w_register_mode_ok(op)
        THEN IF Len(mosi_data) # reg_width(packed_index)
             THEN Ok(msg(d1, tid, "IGNORED: INVALID DATA LEN", "W_REGISTER",
                         packed_index, None, Some(mosi_data)))
             ELSE
             LET d2 == [d1 EXCEPT
                          !.reg_values[packed_index] =
                              [i \in 1..Len(mosi_data) |->
                                  w_register_val(packed_index, @[i],
                                                 mosi_data[i])],
                          !.used_channels =
                              IF packed_index = RF_CH
                              THEN note_channel(@, mosi_data)
                              ELSE @]
             IN  Ok(msg(d2, tid, "", "W_REGISTER", packed_index, None,
                        Some(mosi_data)))
        ELSE Ok(msg(d1, tid, "IGNORED: INVALID OPERATIONAL MODE", "W_REGISTER",
                    packed_index, None, Some(mosi_data)))

\* delta = ts - _timestamps[key] if the key is there; _timestamps[key] = ts
delta_of(d, key, ts) ==
    IF key \in DOMAIN d.timestamps THEN Some(ts - d.timestamps[key]) ELSE None

stamp(d, key, ts) ==
    [d EXCEPT !.timestamps =
        [k \in (DOMAIN @) \cup {key} |-> IF k = key THEN ts ELSE @[k]]]

\* variant of r_rx_payload: self.rx_count is not incremented
r_rx_payload_uncounted(d, ts, tid, mosi_data, miso_data, packed_index) ==
    Ok(msg(stamp(d, "R_RX_PAYLOAD", ts), tid, "", "R_RX_PAYLOAD", NoIndex,
           delta_of(d, "R_RX_PAYLOAD", ts), Some(miso_data)))

r_rx_payload(d, ts, tid, mosi_data, miso_data, packed_index) ==
    LET d1 == [d EXCEPT !.rx_count = @ + 1]
    IN  Ok(msg(stamp(d1, "R_RX_PAYLOAD", ts), tid, "", "R_RX_PAYLOAD", NoIndex,
               delta_of(d1, "R_RX_PAYLOAD", ts), Some(miso_data)))

w_tx_payload(d, ts, tid, mosi_data, miso_data, packed_index) ==
    Then(clear_state_reg_bit(d, FIFO_STATUS, "TX_REUSE"),
         LAMBDA d0 :
           LET d1 == [d0 EXCEPT !.tx_count = @ + 1]
           IN  Ok(msg(stamp(d1, "W_TX_PAYLOAD", ts), tid, "", "W_TX_PAYLOAD",
                      NoIndex, delta_of(d1, "W_TX_PAYLOAD", ts),
                      Some(mosi_data))))

w_tx_payload_no_ack(d, ts, tid, mosi_data, miso_data, packed_index) ==
    LET d1 == [d EXCEPT !.tx_count = @ + 1]
    IN  Ok(msg(stamp(d1, "W_TX_PAYLOAD", ts), tid, "", "W_TX_PAYLOAD_NO_ACK",
               NoIndex, delta_of(d1, "W_TX_PAYLOAD", ts), Some(mosi_data)))

\* variant of flush_tx: the TX_FULL bit of STATUS is not cleared
flush_tx_fifo_only(d, ts, tid, mosi_data, miso_data, packed_index) ==
    Then(clear_state_reg_bit(d, FIFO_STATUS, "TX_REUSE"), LAMBDA d1 :
    Then(clear_state_reg_bit(d1, FIFO_STATUS, "FIFO_STATUS.TX_FULL"), LAMBDA d2 :
         Ok(msg(d2, tid, "", "FLUSH_TX", NoIndex, None,
                IF Len(mosi_data) = 0 THEN None ELSE Some(mosi_data)))))

flush_tx(d, ts, tid, mosi_data, miso_data, packed_index) ==
    Then(clear_state_reg_bit(d, FIFO_STATUS, "TX_REUSE"), LAMBDA d1 :
    Then(clear_state_reg_bit(d1, FIFO_STATUS, "FIFO_STATUS.TX_FULL"), LAMBDA d2 :
    Then(clear_state_reg_bit(d2, STATUS, "STATUS.TX_FULL"), LAMBDA d3 :
         Ok(msg(d3, tid, "", "FLUSH_TX", NoIndex, None,
                IF Len(mosi_data) = 0 THEN None ELSE Some(mosi_data))))))

flush_rx(d, ts, tid, mosi_data, miso_data, packed_index) ==
    Then(clear_state_reg_bit(d, FIFO_STATUS, "FIFO_STATUS.RX_FULL"), LAMBDA d1 :
    Then(clear_state_reg_bit(d1, STATUS, "STATUS.RX_FULL"), LAMBDA d2 :
         Ok(msg(d2, tid, "", "FLUSH_RX", NoIndex, None,
                IF Len(mosi_data) = 0 THEN None ELSE Some(mosi_data)))))

\* self._msg.append(...): the bound method _msg has no attribute append
reuse_tx_pl(d, ts, tid, mosi_data, miso_data, packed_index) ==
    Then(set_state_reg_bit(d, FIFO_STATUS, "TX_REUSE"),
         LAMBDA d1 : Raise(d1, "AttributeError"))

\* variant of activate: self.beken_detected is not set
activate_undetected(d, ts, tid, mosi_data, miso_data, packed_index) ==
    Ok(msg(IF BEKEN_BANK_SWITCH_DATA = mosi_data[1]
           THEN [d EXCEPT !.bank = ~ @]
           ELSE d,
           tid, "IGNORED: BEKEN-SPECIFIC COMMAND", "ACTIVATE", NoIndex, None,
           Some(mosi_data)))

\* variant of activate: the bank is switched whatever the payload byte is
activate_any_payload(d, ts, tid, mosi_data, miso_data, packed_index) ==
    Ok(msg([d EXCEPT !.bank = ~ @, !.beken = TRUE], tid,
           "IGNORED: BEKEN-SPECIFIC COMMAND", "ACTIVATE", NoIndex, None,
           Some(mosi_data)))

activate(d, ts, tid, mosi_data, miso_data, packed_index) ==
    LET d1 == IF BEKEN_BANK_SWITCH_DATA = mosi_data[1]
              THEN [d EXCEPT !.bank = ~ @]
              ELSE d
        d2 == [d1 EXCEPT !.beken = TRUE]
    IN  Ok(msg(d2, tid, "IGNORED: BEKEN-SPECIFIC COMMAND", "ACTIVATE", NoIndex,
               None, Some(mosi_data)))

r_rx_pl_wid(d, ts, tid, mosi_data, miso_data, packed_index) ==
    Ok(msg(d, tid, "", "R_RX_PL_WID", NoIndex, None, Some(miso_data)))

w_ack_payload(d, ts, tid, mosi_data, miso_data, packed_index) ==
    Ok(msg(d, tid, "", "W_ACK_PAYLOAD", NoIndex, None, Some(mosi_data)))

nop(d, ts, tid, mosi_data, miso_data, packed_index) ==
    Ok(msg(d, tid, "", "NOP", NoIndex, None, None))

\* func = getattr(self, '_' + cmd_name.lower()); func(...)
call_handler(cmd_name, d, ts, tid, mosi_data, miso_data, packed_index) ==
    CASE cmd_name = "R_REGISTER" ->
            r_register(d, ts, tid, mosi_data, miso_data, packed_index)
      [] cmd_name = "W_REGISTER" ->
            w_register(d, ts, tid, mosi_data, miso_data, packed_index)
      [] cmd_name = "R_RX_PAYLOAD" ->
            r_rx_payload(d, ts, tid, mosi_data, miso_data, packed_index)
      [] cmd_name = "W_TX_PAYLOAD" ->
            w_tx_payload(d, ts, tid, mosi_data, miso_data, packed_index)
      [] cmd_name = "W_TX_PAYLOAD_NO_ACK" ->
            w_tx_payload_no_ack(d, ts, tid, mosi_data, miso_data, packed_index)
      [] cmd_name = "FLUSH_TX" ->
            flush_tx(d, ts, tid, mosi_data, miso_data, packed_index)
      [] cmd_name = "FLUSH_RX" ->
            flush_rx(d, ts, tid, mosi_data, miso_data, packed_index)
      [] cmd_name = "REUSE_TX_PL" ->
            reuse_tx_pl(d, ts, tid, mosi_data, miso_data, packed_index)
      [] cmd_name = "ACTIVATE" ->
            activate(d, ts, tid, mosi_data, miso_data, packed_index)
      [] cmd_name = "R_RX_PL_WID" ->
            r_rx_pl_wid(d, ts, tid, mosi_data, miso_data, packed_index)
      [] cmd_name = "W_ACK_PAYLOAD" ->
            w_ack_payload(d, ts, tid, mosi_data, miso_data, packed_index)
      [] cmd_name = "NOP" ->
            nop(d, ts, tid, mosi_data, miso_data, packed_index)

(***************************************************************************)
(* _update and update.                                                      *)
(***************************************************************************)
\* except AttributeError: raise DecodeError('ERROR: Failed to lookup func')
except_attribute_error(r) ==
    IF r.exc = "AttributeError" THEN Raise(r.d, "DecodeError") ELSE r

\* min_data_len <= len(mosi_data) <= max_data_len
data_len_ok(cmd_props, mosi_data) ==
    cmd_props.min <= Len(mosi_data) /\ Len(mosi_data) <= cmd_props.max

\* variant of set_status: STATUS is left as it is
set_status_skipped(d, status) == d

\* self.reg_values[self.REGISTER_LOOKUP['STATUS']][0] = status
set_status(d, status) == [d EXCEPT !.reg_values[STATUS][1] = status]

\* _update: overwrite STATUS, then call the handler if the data length is
\* within the command's bounds, else write to stderr; an AttributeError
\* raised inside the try block becomes a DecodeError
cmd_update(d, ts, tid, cmd_props, status, mosi_data, miso_data, packed_index) ==
    IF data_len_ok(cmd_props, mosi_data)
    THEN except_attribute_error(
             call_handler(cmd_props.name, set_status(d, status), ts, tid,
                          mosi_data, miso_data, packed_index))
    ELSE Ok([set_status(d, status) EXCEPT
                !.stderr = Append(@, "Invalid data len for command")])

\* variant of lengths_differ: the lengths are not compared
lengths_differ_unchecked(mosi_data, miso_data) == FALSE

\* if (len(mosi_data) != len(miso_data)): write to stderr and return
lengths_differ(mosi_data, miso_data) == Len(mosi_data) # Len(miso_data)

\* the result q of _update, with the handler it called added to the calls
with_call(calls, cmd_props, mosi_data, packed_index, q) ==
    [d     |-> q.d,
     exc   |-> q.exc,
     calls |-> IF data_len_ok(cmd_props, mosi_data)
               THEN Append(calls, [name |-> cmd_props.name,
                                   index |-> packed_index])
               ELSE calls]

\* one of the three lookups of update: COMMANDS.get(key) and, if the key is
\* there, _update with the packed index; r carries the state, the exception
\* and the handlers called so far
lookup_step(r, ts, tid, key, status, mosi_data, miso_data, packed_index) ==
    IF r.exc # "none" \/ key \notin DOMAIN COMMANDS THEN r
    ELSE with_call(r.calls, COMMANDS[key], mosi_data, packed_index,
                   cmd_update(r.d, ts, tid, COMMANDS[key], status, mosi_data,
                              miso_data, packed_index))

\* raise DecodeError('ERROR: Failed to process command'): the last statement
\* of update, reached whenever nothing was raised before
raise_at_end(r) ==
    IF r.exc = "none" THEN [r EXCEPT !.exc = "DecodeError"] ELSE r

\* the three lookups, in the order of the code: the opcode masked with
\* RW_REGISTER_CMD_MASK, masked with W_ACK_PAYLOAD_CMD_MASK, and unmasked
lookups(d, ts, tid, cmd, status, mosi_data, miso_data) ==
    lookup_step(
        lookup_step(
            lookup_step([d |-> d, exc |-> "none", calls |-> <<>>],
                        ts, tid, BitAnd(cmd, RW_REGISTER_CMD_MASK),
                        status, mosi_data, miso_data,
                        BitAnd(cmd, RW_REGISTER_VALUE_MASK)),
            ts, tid, BitAnd(cmd, W_ACK_PAYLOAD_CMD_MASK),
            status, mosi_data, miso_data,
            BitAnd(cmd, W_ACK_PAYLOAD_VALUE_MASK)),
        ts, tid, cmd, status, mosi_data, miso_data, NoIndex)

\* update(ts, transaction_id, mosi_data, miso_data)
update(d, ts, tid, mosi, miso) ==
    IF lengths_differ(Tail(mosi), Tail(miso))
    THEN [d     |-> [d EXCEPT !.stderr =
                        Append(@, "MISO and MOSI data lengths do not match")],
          exc   |-> "none",
          calls |-> <<>>]
    ELSE raise_at_end(lookups(d, ts, tid, mosi[1], miso[1], Tail(mosi),
                              Tail(miso)))

(***************************************************************************)
(* The configuration queries.                                               *)
(***************************************************************************)
ARC_MASK == 15

get_data_rate(regs) ==
    IF read_state_reg(regs, RF_SETUP, "RF_DR_LOW") = 1 THEN "250KBPS"
    ELSE IF read_state_reg(regs, RF_SETUP, "RF_DR_HIGH") = 0 THEN "1MBPS"
    ELSE "2MBPS"

\* variant of arc_is_zero: the retransmit count is not looked at
arc_is_ignored(regs) == TRUE

\* 0 == (self._read_state_reg('SETUP_RETR')[0] & self.ARC_MASK)
arc_is_zero(regs) == BitAnd(regs[SETUP_RETR][1], ARC_MASK) = 0

get_packet_format(d) ==
    IF d.beken
    THEN IF d.reg_values[EN_AA][1] = 0
            /\ read_state_reg(d.reg_values, FEATURE, "EN_DPL") = 0
         THEN "SB"
         ELSE IF read_state_reg(d.reg_values, FEATURE, "EN_DPL") = 1
              THEN "ESB_DPL"
              ELSE "ESB"
    ELSE IF /\ d.reg_values[EN_AA][1] = 0
            /\ arc_is_zero(d.reg_values)
            /\ get_data_rate(d.reg_values) \in {"1MBPS", "250KBPS"}
         THEN "SB"
         ELSE IF read_state_reg(d.reg_values, FEATURE, "EN_DPL") = 1
              THEN "ESB_DPL"
              ELSE "ESB"

OUTPUT_POWER_MASK == 6
OUTPUT_POWER_OFFSET == 1

\* val = (RF_SETUP & OUTPUT_POWER_MASK) >> OUTPUT_POWER_OFFSET, compared
\* with 0x00, 0x01 and 0x10
get_output_power(regs) ==
    IF BitAnd(regs[RF_SETUP][1], OUTPUT_POWER_MASK)
           \div Pow2(OUTPUT_POWER_OFFSET) = 0
    THEN "-18dBm"
    ELSE IF BitAnd(regs[RF_SETUP][1], OUTPUT_POWER_MASK)
                \div Pow2(OUTPUT_POWER_OFFSET) = 1
    THEN "-12dBm"
    ELSE IF BitAnd(regs[RF_SETUP][1], OUTPUT_POWER_MASK)
                \div Pow2(OUTPUT_POWER_OFFSET) = 16
    THEN "-6dBm"
    ELSE "0dBm"

\* get_pipe_config: the byte of a one-byte register, the list of a longer one
pipe_config(regs, reg) == IF Len(regs[reg]) = 1 THEN regs[reg][1] ELSE regs[reg]

\* the translation of the power level in get_uesb_config; no line is
\* generated for a level that is none of the four
uesb_tx_output_power(pwr) ==
    IF pwr = "0dBm" THEN "UESB_TX_POWER_0DBM"
    ELSE IF pwr = "-6dBm" THEN "UESB_TX_POWER_NEG4DBM"
    ELSE IF pwr = "-12dBm" THEN "UESB_TX_POWER_NEG12DBM"
    ELSE IF pwr = "-18dBm" THEN "UESB_TX_POWER_NEG16DBM"
    ELSE ""

\* get_uesb_config: of the generated text, the address given to rx_addr_p0,
\* uesb_config.mode and uesb_config.tx_output_power
get_uesb_config(d) ==
    [rx_addr_p0 |->
         IF get_operational_mode(d.reg_values) # "PRX"
         THEN pipe_config(d.reg_values, TX_ADDR)
         ELSE pipe_config(d.reg_values, RX_ADDR_P0),
     mode |->
         IF get_operational_mode(d.reg_values) = "PRX"
         THEN "UESB_MODE_PRX"
         ELSE "UESB_MODE_PTX",
     tx_output_power |->
         uesb_tx_output_power(get_output_power(d.reg_values))]

(***************************************************************************)
(* The transactions the model feeds to update.                              *)
(***************************************************************************)
\* n payload bytes that differ from position to position, starting at b
Payload(b, n) == [i \in 1..n |-> (b + 17 * (i - 1)) % 256]

\* a transaction at time ts: opcode c with n MOSI payload bytes from b,
\* status byte s and n + x MISO payload bytes from m
Txn(ts, c, n, b, s, m, x) ==
    [ts |-> ts, mosi |-> <<c>> \o Payload(b, n),
     miso |-> <<s>> \o Payload(m, n + x)]

\* two captures of the same command: the first payload byte, the status
\* byte, the first byte read back and the time differ
Variants ==
    {[ts |-> 1000, b |-> 83,  s |-> 14,  m |-> 172],
     [ts |-> 1004, b |-> 174, s |-> 113, m |-> 81]}

\* one opcode of every kind: R_REGISTER and W_REGISTER on CONFIG, STATUS,
\* RF_CH, a five-byte register, FIFO_STATUS, a gap of the catalog and an
\* index above the maximum; every other command; opcodes next to a command;
\* an opcode no lookup finds
OpCodes ==
    {0, 7, 10, 23, 24, 30,
     32, 37, 39, 42, 56, 63,
     80, 81, 96, 97, 160, 168, 176, 225, 226, 227, 255, 64}

\* the payload lengths tried with an opcode; R_RX_PAYLOAD also with a
\* length that R_RX_PL_WID, which shares its top bits, does not admit
Lens(c) == IF c < 64 THEN {1, 5} ELSE IF c = 97 THEN {0, 1, 2} ELSE {0, 1}

Transactions ==
    UNION {{Txn(v.ts, c, n, v.b, v.s, v.m, 0) : v \in Variants, n \in Lens(c)} :
              c \in OpCodes}

\* transactions whose MOSI and MISO payload lengths differ
Mismatched ==
    {Txn(1000, c, 1, 83, 113, 172, x) : c \in {32, 160, 64}, x \in {-1, 1}}

(***************************************************************************)
(* Initial state and actions.                                               *)
(***************************************************************************)
\* __init__ sets the attributes and then calls reset()
InitState ==
    reset([reg_values    |-> <<>>,
           messages      |-> <<>>,
           used_channels |-> <<>>,
           tx_count      |-> 0,
           rx_count      |-> 0,
           timestamps    |-> <<>>,
           bank          |-> FALSE,
           beken         |-> FALSE,
           stderr        |-> <<>>])

SetState(d) ==
    /\ reg_values' = d.reg_values
    /\ messages' = d.messages
    /\ used_channels' = d.used_channels
    /\ tx_count' = d.tx_count
    /\ rx_count' = d.rx_count
    /\ timestamps' = d.timestamps
    /\ beken_bank_switch_active' = d.bank
    /\ beken_detected' = d.beken
    /\ stderr' = d.stderr

NoCall ==
    [op |-> "init", ts |-> 0, tid |-> 0, mosi |-> <<>>, miso |-> <<>>,
     exc |-> "none", calls |-> <<>>]

\* Decode(): __init__ ends with reset()
Init ==
    /\ reg_values = InitState.reg_values
    /\ messages = InitState.messages
    /\ used_channels = InitState.used_channels
    /\ tx_count = InitState.tx_count
    /\ rx_count = InitState.rx_count
    /\ timestamps = InitState.timestamps
    /\ beken_bank_switch_active = InitState.bank
    /\ beken_detected = InitState.beken
    /\ stderr = InitState.stderr
    /\ last = NoCall
    /\ pre = InitState
    /\ nsteps = 0

\* one call of update; the transaction id is the sequence number of the call
Called(ts, mosi, miso, r) ==
    /\ SetState(r.d)
    /\ last' = [op |-> "update", ts |-> ts, tid |-> nsteps,
                mosi |-> mosi, miso |-> miso, exc |-> r.exc,
                calls |-> r.calls]

Update(ts, mosi, miso) ==
    /\ nsteps < MaxSteps
    /\ Called(ts, mosi, miso, update(State, ts, nsteps, mosi, miso))
    /\ pre' = State
    /\ nsteps' = nsteps + 1

\* one call of reset
Reset ==
    /\ nsteps < MaxSteps
    /\ SetState(reset(State))
    /\ last' = [NoCall EXCEPT !.op = "reset", !.tid = nsteps]
    /\ pre' = State
    /\ nsteps' = nsteps + 1

Next ==
    \/ \E t \in Transactions \cup Mismatched : Update(t.ts, t.mosi, t.miso)
    \/ Reset

Spec == Init /\ [][Next]_vars

(***************************************************************************)
(* A second environment, for the register file: W_REGISTER and R_REGISTER   *)
(* on every register of the catalog with a full-width payload, and writes   *)
(* of STATUS under several status bytes.                                    *)
(***************************************************************************)
RegTransactions ==
    {Txn(v.ts, 32 + a, reg_width(a), v.b, v.s, v.m, 0) :
        v \in Variants, a \in RegAddrs}
    \cup {Txn(1000, a, reg_width(a), 0, 14, 192, 0) : a \in RegAddrs}
    \cup {Txn(1004, 32 + STATUS, 1, b, s, 0, 0) :
             b \in {16, 83, 174, 255}, s \in {46, 127}}

NextRegs ==
    \/ \E t \in RegTransactions : Update(t.ts, t.mosi, t.miso)
    \/ Reset

SpecRegs == Init /\ [][NextRegs]_vars

(***************************************************************************)
(* A third environment, for the queries: the object after a replay that     *)
(* left some values in the registers the queries read (each is a value an   *)
(* R_REGISTER or a W_REGISTER can leave there) and that has or has not seen *)
(* an ACTIVATE; the queries are then called in any order.                   *)
(***************************************************************************)
QueryRegs ==
    [EN_AA       : {<<0>>, <<1>>, <<63>>},
     SETUP_RETR  : {<<0>>, <<3>>, <<16>>, <<47>>},
     RF_SETUP    : {<<6>>, <<14>>, <<38>>, <<46>>, <<0>>, <<2>>, <<4>>},
     FEATURE     : {<<0>>, <<3>>, <<4>>, <<7>>},
     CONFIG      : {<<8>>, <<9>>, <<10>>, <<11>>},
     FIFO_STATUS : {<<17>>, <<1>>},
     TX_ADDR     : {Five(231), <<1, 2, 3, 4, 5>>}]

InitQuery ==
    /\ \E q \in QueryRegs :
          reg_values = [InitState.reg_values EXCEPT
                           ![EN_AA] = q.EN_AA,
                           ![SETUP_RETR] = q.SETUP_RETR,
                           ![RF_SETUP] = q.RF_SETUP,
                           ![FEATURE] = q.FEATURE,
                           ![CONFIG] = q.CONFIG,
                           ![FIFO_STATUS] = q.FIFO_STATUS,
                           ![TX_ADDR] = q.TX_ADDR]
    /\ messages = InitState.messages
    /\ used_channels = InitState.used_channels
    /\ tx_count = InitState.tx_count
    /\ rx_count = InitState.rx_count
    /\ timestamps = InitState.timestamps
    /\ beken_bank_switch_active = InitState.bank
    /\ beken_detected \in BOOLEAN
    /\ stderr = InitState.stderr
    /\ last = NoCall
    /\ pre = InitState
    /\ nsteps = 0

\* a query changes nothing of the object; its answer is kept in last
Answered(name, result) ==
    /\ last' = [op |-> name, result |-> result]
    /\ UNCHANGED <<reg_values, messages, used_channels, tx_count, rx_count,
                   timestamps, beken_bank_switch_active, beken_detected,
                   stderr, pre, nsteps>>

GetPacketFormat == Answered("get_packet_format", get_packet_format(State))

GetOperationalMode ==
    Answered("get_operational_mode", get_operational_mode(reg_values))

GetOutputPower == Answered("get_output_power", get_output_power(reg_values))

GetUesbConfig == Answered("get_uesb_config", get_uesb_config(State))

NextQuery ==
    \/ GetPacketFormat
    \/ GetOperationalMode
    \/ GetOutputPower
    \/ GetUesbConfig

SpecQuery == InitQuery /\ [][NextQuery]_vars

(***************************************************************************)
(* The last call, as the properties below refer to it.                      *)
(***************************************************************************)
LastIsUpdate == last.op = "update"
LastCmd == last.mosi[1]
LastStatus == last.miso[1]
LastMosiData == Tail(last.mosi)
LastMisoData == Tail(last.miso)
LastLengthsMatch == Len(last.mosi) = Len(last.miso)
LastLengthInBounds(lo, hi) == lo <= Len(LastMosiData) /\ Len(LastMosiData) <= hi

\* a W_REGISTER transaction: the top three bits of the opcode are 001
LastIsWRegister == LastIsUpdate /\ LastLengthsMatch /\ LastCmd \in 32..63
LastIndex == LastCmd % 32

PreMode == get_operational_mode(pre.reg_values)

\* width of the catalog's registers: five bytes for the three addresses
CatalogWidth(a) == IF a \in {10, 11, 16} THEN 5 ELSE 1

\* everything but the registers and the log is as before the last call
CountersAndFlagsUnchanged ==
    /\ tx_count = pre.tx_count
    /\ rx_count = pre.rx_count
    /\ used_channels = pre.used_channels
    /\ timestamps = pre.timestamps
    /\ beken_bank_switch_active = pre.bank
    /\ beken_detected = pre.beken

\* the log is the log before the last call plus at least one entry
LogGrew ==
    /\ Len(messages) > Len(pre.messages)
    /\ SubSeq(messages, 1, Len(pre.messages)) = pre.messages

(***************************************************************************)
(* C1: a W_REGISTER with a full-width payload on a register other than      *)
(* STATUS, processed in POWER_DOWN or STANDBY, leaves every byte of the     *)
(* register equal to (old & ~mask) | (data & mask).                         *)
(***************************************************************************)
C1_Case ==
    /\ LastIsWRegister
    /\ LastIndex \in RegAddrs \ {STATUS}
    /\ Len(LastMosiData) = CatalogWidth(LastIndex)
    /\ PreMode \in {"POWER_DOWN", "STANDBY"}

C1_WriteMergesThroughMask ==
    C1_Case =>
        /\ Len(reg_values[LastIndex]) = CatalogWidth(LastIndex)
        /\ \A i \in 1..CatalogWidth(LastIndex) :
              reg_values[LastIndex][i] =
                  BitOr(BitAndNot(pre.reg_values[LastIndex][i],
                                  REGISTERS[LastIndex].mask),
                        BitAnd(LastMosiData[i], REGISTERS[LastIndex].mask))

\* a write in STANDBY that keeps a bit outside the mask and takes bits inside
C1_Witness ==
    /\ C1_Case
    /\ PreMode = "STANDBY"
    /\ reg_values[LastIndex][1] # LastMosiData[1]
    /\ reg_values[LastIndex][1] # pre.reg_values[LastIndex][1]

(***************************************************************************)
(* C2: an accepted W_REGISTER(STATUS) with data byte d clears exactly the   *)
(* bits among RX_DR, TX_DS, MAX_RT that are set in d; every other bit of    *)
(* STATUS is the bit of the status byte of the transaction.                 *)
(***************************************************************************)
C2_Case ==
    /\ LastIsWRegister
    /\ LastIndex = STATUS
    /\ Len(LastMosiData) = 1
    /\ PreMode \in {"POWER_DOWN", "STANDBY"}

C2_StatusWriteOneToClear ==
    C2_Case =>
        \A k \in 0..7 :
            bit_is_set(reg_values[STATUS][1], k) =
                IF k \in {4, 5, 6} /\ bit_is_set(LastMosiData[1], k) = 1
                THEN 0
                ELSE bit_is_set(LastStatus, k)

\* a write that clears a flag, keeps a flag and has other bits set in d
C2_Witness ==
    /\ C2_Case
    /\ \E k \in {4, 5, 6} :
          bit_is_set(LastStatus, k) = 1 /\ bit_is_set(reg_values[STATUS][1], k) = 0
    /\ \E k \in {4, 5, 6} :
          bit_is_set(LastStatus, k) = 1 /\ bit_is_set(reg_values[STATUS][1], k) = 1
    /\ \E k \in {0, 1, 2, 3, 7} : bit_is_set(LastMosiData[1], k) = 1

(***************************************************************************)
(* C3: a W_REGISTER processed in PTX or PRX writes nothing and is logged as *)
(* ignored because of the operational mode.                                 *)
(***************************************************************************)
C3_Case ==
    /\ LastIsWRegister
    /\ LastIndex \in RegAddrs
    /\ LastLengthInBounds(1, 5)
    /\ PreMode \in {"PTX", "PRX"}

LastEntryIgnoredForMode ==
    /\ LogGrew
    /\ messages[Len(messages)].annot = "IGNORED: INVALID OPERATIONAL MODE"
    /\ messages[Len(messages)].cmd = "W_REGISTER"
    /\ messages[Len(messages)].reg = LastIndex
    /\ messages[Len(messages)].tid = last.tid

C4_BankSwitchIgnoresWrite ==
    (/\ LastIsWRegister
     /\ LastIndex \in RegAddrs \ {STATUS}
     /\ LastLengthInBounds(1, 5)
     /\ pre.bank)
    =>
        /\ reg_values[LastIndex] = pre.reg_values[LastIndex]
        /\ used_channels = pre.used_channels
        /\ LogGrew
        /\ messages[Len(messages)].annot = "IGNORED: BEKEN-SPECIFIC COMMAND"

(***************************************************************************)
(* C5: an ACTIVATE transaction (opcode 0x50) with payload 0x53 flips        *)
(* bank_switch_active exactly once.                                         *)
(***************************************************************************)
C5_ActivateTogglesOnce ==
    (LastIsUpdate /\ last.mosi = <<80, BEKEN_BANK_SWITCH_DATA>> /\ LastLengthsMatch)
    => beken_bank_switch_active = ~ pre.bank

(***************************************************************************)
(* C6: for every opcode, update runs at most one command handler.           *)
(***************************************************************************)
C6_SingleDispatch ==
    (LastIsUpdate /\ LastLengthsMatch) => Len(last.calls) <= 1

(***************************************************************************)
(* C7: update raises DecodeError exactly when the opcode matches none of    *)
(* the three tests; a transaction with a recognized opcode returns          *)
(* normally.                                                                *)
(***************************************************************************)
Recognized(cmd) ==
    \/ cmd \in CmdCodes
    \/ BitAnd(cmd, 248) \in CmdCodes
    \/ BitAnd(cmd, 224) \in CmdCodes

C7_ErrorIffUnrecognized ==
    (LastIsUpdate /\ LastLengthsMatch) =>
        IF Recognized(LastCmd)
        THEN last.exc = "none"
        ELSE last.exc = "DecodeError"

(***************************************************************************)
(* C8: a transaction whose MOSI and MISO payload lengths differ changes no  *)
(* register, counter, channel history, flag, timestamp or log entry, and    *)
(* update returns normally.                                                 *)
(***************************************************************************)
C8_Case == LastIsUpdate /\ Len(last.mosi) # Len(last.miso)

C8_MismatchSkipped ==
    C8_Case =>
        /\ reg_values = pre.reg_values
        /\ messages = pre.messages
        /\ CountersAndFlagsUnchanged
        /\ last.exc = "none"

\* a mismatched transaction, after one that was logged, whose status byte
\* is not the value STATUS holds
C8_Witness ==
    /\ C8_Case
    /\ pre.messages # <<>>
    /\ LastStatus # reg_values[STATUS][1]

(***************************************************************************)
(* C9: in every reachable state every register of the catalog has an entry  *)
(* whose length is the register's width, 1 or 5.                            *)
(***************************************************************************)
C9_RegisterWidths ==
    /\ DOMAIN reg_values = RegAddrs
    /\ \A a \in RegAddrs : Len(reg_values[a]) = CatalogWidth(a)

\* a five-byte register after an R_REGISTER refreshed it
C9_Witness ==
    /\ LastIsUpdate
    /\ LastLengthsMatch
    /\ LastCmd = 10
    /\ reg_values[10] = LastMisoData
    /\ reg_values[10] # pre.reg_values[10]

(***************************************************************************)
(* C10: reset() returns the object to its initial state.                    *)
(***************************************************************************)
C10_ResetRestoresInitialState ==
    last.op = "reset" =>
        /\ DOMAIN reg_values = RegAddrs
        /\ \A a \in RegAddrs :
              /\ reg_values[a] = REGISTERS[a].init
              /\ Len(reg_values[a]) = CatalogWidth(a)
        /\ tx_count = 0
        /\ rx_count = 0
        /\ ~ beken_detected
        /\ ~ beken_bank_switch_active
        /\ DOMAIN timestamps = {}
        /\ messages = <<>>
        /\ used_channels = <<REGISTERS[RF_CH].init[1]>>

\* a reset of an object that has logged a write of a new channel
C10_Witness ==
    /\ last.op = "reset"
    /\ pre.messages # <<>>
    /\ Len(pre.used_channels) > 1
    /\ pre.reg_values # reg_values

(***************************************************************************)
(* The transaction of the last call, by kind.                               *)
(***************************************************************************)
LastIsMatched == LastIsUpdate /\ LastLengthsMatch

\* an RF_CH write that is accepted: one data byte, the mode allows writing
\* and no alternate bank is selected
AcceptedChannelWrite ==
    /\ LastIsWRegister
    /\ LastIndex = RF_CH
    /\ Len(LastMosiData) = 1
    /\ PreMode \in {"POWER_DOWN", "STANDBY"}
    /\ ~ pre.bank

NoDuplicates(s) == \A i, j \in 1..Len(s) : i # j => s[i] # s[j]

Contains(s, x) == \E i \in 1..Len(s) : s[i] = x

(***************************************************************************)
(* C11: the observed-channel list has no duplicates, begins with the reset  *)
(* value of RF_CH and holds the channels of the accepted RF_CH writes in    *)
(* order of first appearance: an accepted write of a channel not yet in the *)
(* list appends it, and no other transaction changes the list.  (The        *)
(* channel of a write is taken to be its data byte.)                        *)
(***************************************************************************)
C11_ChannelHistory ==
    /\ NoDuplicates(used_channels)
    /\ used_channels[1] = REGISTERS[RF_CH].init[1]
    /\ LastIsUpdate =>
          used_channels =
              IF AcceptedChannelWrite
                 /\ ~ Contains(pre.used_channels, LastMosiData[1])
              THEN Append(pre.used_channels, LastMosiData[1])
              ELSE pre.used_channels

(***************************************************************************)
(* C12: a W_TX_PAYLOAD (0xA0) or W_TX_PAYLOAD_NO_ACK (0xB0) transaction     *)
(* with 1 to 32 payload bytes adds exactly 1 to tx_count, and no other      *)
(* transaction changes tx_count.                                            *)
(***************************************************************************)
LastIsTxPayload ==
    LastIsMatched /\ LastCmd \in {160, 176} /\ LastLengthInBounds(1, 32)

C12_TxCountCountsTxPayloads ==
    LastIsUpdate =>
        tx_count = pre.tx_count + (IF LastIsTxPayload THEN 1 ELSE 0)

(***************************************************************************)
(* C13: an R_RX_PAYLOAD (0x61) transaction with 1 to 32 payload bytes adds  *)
(* exactly 1 to rx_count and changes no register other than STATUS; no      *)
(* other transaction changes rx_count, and rx_count is 0 after reset().     *)
(***************************************************************************)
LastIsRxPayload ==
    LastIsMatched /\ LastCmd = 97 /\ LastLengthInBounds(1, 32)

C13_RxCountCountsRxPayloads ==
    /\ LastIsUpdate =>
          rx_count = pre.rx_count + (IF LastIsRxPayload THEN 1 ELSE 0)
    /\ last.op = "reset" => rx_count = 0
    /\ LastIsRxPayload =>
          \A a \in RegAddrs \ {STATUS} : reg_values[a] = pre.reg_values[a]

\* a second R_RX_PAYLOAD, with a payload longer than R_RX_PL_WID admits
C13_Witness ==
    /\ LastIsRxPayload
    /\ Len(LastMosiData) = 2
    /\ pre.rx_count = 1
    /\ rx_count = 2

(***************************************************************************)
(* C14: every log entry of a TX-payload transaction carries no delta when   *)
(* no TX payload was written before it, and otherwise the difference        *)
(* between its timestamp and the timestamp of the TX payload before it.     *)
(***************************************************************************)
C14_TxDelta ==
    LastIsTxPayload =>
        \A k \in (Len(pre.messages) + 1)..Len(messages) :
            messages[k].delta =
                IF "W_TX_PAYLOAD" \in DOMAIN pre.timestamps
                THEN Some(last.ts - pre.timestamps["W_TX_PAYLOAD"])
                ELSE None

(***************************************************************************)
(* C15: when no clone has been detected, get_packet_format answers SB       *)
(* exactly when EN_AA is 0x00, the retransmit count is 0 and the data rate  *)
(* is 1 Mbps or 250 kbps; otherwise it answers ESB_DPL if FEATURE.EN_DPL is *)
(* set and ESB if not.  With a nonzero retransmit count the answer is       *)
(* never SB.                                                                *)
(***************************************************************************)
C15_Case == last.op = "get_packet_format" /\ ~ beken_detected

RetransmitCount == reg_values[SETUP_RETR][1] % 16

C15_PacketFormat ==
    C15_Case =>
        /\ last.result =
              IF /\ reg_values[EN_AA][1] = 0
                 /\ RetransmitCount = 0
                 /\ get_data_rate(reg_values) \in {"1MBPS", "250KBPS"}
              THEN "SB"
              ELSE IF bit_is_set(reg_values[FEATURE][1], 2) = 1
                   THEN "ESB_DPL"
                   ELSE "ESB"
        /\ RetransmitCount # 0 => last.result \in {"ESB", "ESB_DPL"}

\* EN_AA clear, 1 Mbps, dynamic payload off, but a nonzero retransmit
\* count: the answer is the enhanced format
C15_Witness ==
    /\ C15_Case
    /\ reg_values[EN_AA][1] = 0
    /\ get_data_rate(reg_values) = "1MBPS"
    /\ RetransmitCount # 0
    /\ last.result = "ESB"

(***************************************************************************)
(* C16: an R_REGISTER or W_REGISTER whose packed index is above 0x1D        *)
(* appends an error entry to the log, changes no register, counter,         *)
(* channel history or flag, and update returns normally.  (Stated for       *)
(* registers other than STATUS, which every transaction overwrites.)        *)
(***************************************************************************)
C16_InvalidIndexLoggedOnly ==
    (/\ LastIsMatched
     /\ LastCmd \in 0..63
     /\ LastIndex > RW_REGISTER_MAX_INDEX
     /\ LastLengthInBounds(1, 5))
    =>
        /\ LogGrew
        /\ messages[Len(messages)].annot = "ERROR: Invalid index"
        /\ \A a \in RegAddrs \ {STATUS} : reg_values[a] = pre.reg_values[a]
        /\ CountersAndFlagsUnchanged
        /\ last.exc = "none"

(***************************************************************************)
(* C17: a transaction with a recognized opcode, matching lengths and a      *)
(* payload length within the bounds of its command appends exactly one      *)
(* entry to the log and leaves the entries before it as they were.          *)
(***************************************************************************)
\* the command of an opcode: exact match, else the 3-bit mask, else the
\* 5-bit mask
CommandOf(cmd) ==
    IF cmd \in CmdCodes THEN cmd
    ELSE IF BitAnd(cmd, 248) \in CmdCodes THEN BitAnd(cmd, 248)
    ELSE BitAnd(cmd, 224)

LastIsProcessed ==
    /\ LastIsMatched
    /\ Recognized(LastCmd)
    /\ LastLengthInBounds(COMMANDS[CommandOf(LastCmd)].min,
                          COMMANDS[CommandOf(LastCmd)].max)

C17_OneEntryPerTransaction ==
    /\ LastIsUpdate =>
          /\ Len(messages) >= Len(pre.messages)
          /\ SubSeq(messages, 1, Len(pre.messages)) = pre.messages
    /\ LastIsProcessed => Len(messages) = Len(pre.messages) + 1

(***************************************************************************)
(* C18: an ACTIVATE with one payload byte sets beken_detected and logs      *)
(* entries of an ignored vendor-specific command only; it changes           *)
(* bank_switch_active only if the payload byte is 0x53; and no call of      *)
(* update clears beken_detected.                                            *)
(***************************************************************************)
C18_Case == LastIsMatched /\ LastCmd \in 80..87 /\ Len(LastMosiData) = 1

C18_ActivateMarksClone ==
    /\ C18_Case =>
          /\ beken_detected
          /\ LogGrew
          /\ \A k \in (Len(pre.messages) + 1)..Len(messages) :
                /\ messages[k].annot = "IGNORED: BEKEN-SPECIFIC COMMAND"
                /\ messages[k].cmd = "ACTIVATE"
          /\ beken_bank_switch_active # pre.bank =>
                LastMosiData[1] = BEKEN_BANK_SWITCH_DATA
    /\ (LastIsUpdate /\ pre.beken) => beken_detected

\* an ACTIVATE with another payload byte, after an ACTIVATE that selected
\* the alternate bank: the bank stays selected, the clone stays detected
C18_Witness ==
    /\ C18_Case
    /\ LastMosiData[1] # BEKEN_BANK_SWITCH_DATA
    /\ pre.beken
    /\ pre.bank
    /\ beken_bank_switch_active
    /\ beken_detected

(***************************************************************************)
(* C19: a transaction with matching lengths and a recognized opcode         *)
(* overwrites STATUS with its status byte before the handler runs: STATUS   *)
(* is afterwards the status byte, but for what the handler then did to it   *)
(* (an R_REGISTER(STATUS) stores the byte read, a W_REGISTER(STATUS) and a  *)
(* FLUSH_TX clear bits of it).  After a NOP STATUS is the status byte.      *)
(***************************************************************************)
C19_Case == LastIsMatched /\ Recognized(LastCmd)

C19_StatusAfter ==
    IF LastCmd = 7 /\ Len(LastMosiData) = 1 /\ ~ pre.bank
    THEN LastMisoData[1]
    ELSE IF LastCmd = 39 /\ Len(LastMosiData) = 1
            /\ PreMode \in {"POWER_DOWN", "STANDBY"}
    THEN LastStatus - BitAnd(BitAnd(LastStatus, LastMosiData[1]), 112)
    ELSE IF LastCmd = 225 /\ Len(LastMosiData) <= 1
    THEN LastStatus - (LastStatus % 2)
    ELSE LastStatus

C19_StatusOverwritten ==
    C19_Case => reg_values[STATUS] = <<C19_StatusAfter>>

\* a NOP whose status byte is not the value STATUS held
C19_Witness ==
    /\ C19_Case
    /\ LastCmd = 255
    /\ pre.reg_values[STATUS] # <<LastStatus>>
    /\ reg_values[STATUS] = <<LastStatus>>

(***************************************************************************)
(* C20: an R_REGISTER on a register of the catalog stores the bytes read    *)
(* when no alternate bank is selected and the payload has the register's    *)
(* width; otherwise it leaves the register as it was and logs ignored       *)
(* entries only.                                                            *)
(***************************************************************************)
C20_Case ==
    /\ LastIsMatched
    /\ LastCmd \in 0..31
    /\ LastIndex \in RegAddrs
    /\ LastLengthInBounds(1, 5)

C20_Stored == ~ pre.bank /\ Len(LastMosiData) = CatalogWidth(LastIndex)

C20_IgnoredEntries ==
    /\ LogGrew
    /\ \A k \in (Len(pre.messages) + 1)..Len(messages) :
          messages[k].annot \in {"IGNORED: BEKEN-SPECIFIC COMMAND",
                                 "IGNORED: INVALID DATA LEN"}

\* C20 as claimed: an ignored read leaves every register idx unchanged
C20_ReadStoresOrIgnores ==
    C20_Case =>
        IF C20_Stored
        THEN reg_values[LastIndex] = LastMisoData
        ELSE /\ reg_values[LastIndex] = pre.reg_values[LastIndex]
             /\ C20_IgnoredEntries

\* C20 as amended: an R_REGISTER(idx) on a register of the catalog leaves
\* register idx equal to the MISO payload bytes when the bank switch is
\* inactive and the payload length equals the register width; when the bank
\* switch is active or the length differs, it logs ignored entries only and
\* leaves register idx unchanged, except that STATUS (idx 7) takes the
\* status byte of the transaction.
C20_ReadStoresOrIgnoresButStatus ==
    C20_Case =>
        IF C20_Stored
        THEN reg_values[LastIndex] = LastMisoData
        ELSE /\ reg_values[LastIndex] =
                    IF LastIndex = STATUS THEN <<LastStatus>>
                    ELSE pre.reg_values[LastIndex]
             /\ C20_IgnoredEntries

\* a read of a five-byte register while the alternate bank is selected:
\* the bytes read are not stored
C20_Witness ==
    /\ C20_Case
    /\ pre.bank
    /\ LastIndex = 10
    /\ Len(LastMisoData) = 5
    /\ reg_values[10] # LastMisoData
    /\ reg_values[10] = pre.reg_values[10]

(***************************************************************************)
(* C21: a transaction with a recognized opcode and a payload length outside *)
(* the bounds of its command changes no register (STATUS included), no      *)
(* counter, channel history, timestamp or flag, is reported by an entry of  *)
(* the log, and update returns normally.                                    *)
(***************************************************************************)
LastIsOutOfBounds ==
    /\ LastIsMatched
    /\ Recognized(LastCmd)
    /\ ~ LastLengthInBounds(COMMANDS[CommandOf(LastCmd)].min,
                            COMMANDS[CommandOf(LastCmd)].max)

C21_InvalidLengthLoggedOnly ==
    LastIsOutOfBounds =>
        /\ reg_values = pre.reg_values
        /\ CountersAndFlagsUnchanged
        /\ LogGrew
        /\ last.exc = "none"

(***************************************************************************)
(* C22: an R_REGISTER or W_REGISTER whose packed index is not an address of *)
(* the catalog (0x18 to 0x1B, 0x1E, 0x1F) appends an error entry to the log *)
(* and update returns normally.                                             *)
(***************************************************************************)
C22_UndefinedIndexLogged ==
    (/\ LastIsMatched
     /\ LastCmd \in 0..63
     /\ LastIndex \notin RegAddrs
     /\ LastLengthInBounds(1, 5))
    =>
        /\ last.exc = "none"
        /\ LogGrew
        /\ \A k \in (Len(pre.messages) + 1)..Len(messages) :
              messages[k].annot = "ERROR: Invalid index"

(***************************************************************************)
(* C23: an R_RX_PL_WID (0x60), a W_ACK_PAYLOAD (0xA8 to 0xAF) and a NOP     *)
(* (0xFF) are logged only: no register other than STATUS changes, and no    *)
(* counter, channel history, timestamp or flag changes.                     *)
(***************************************************************************)
C23_LoggedOnly ==
    (/\ LastIsProcessed
     /\ LastCmd \in {96, 255} \cup (168..175))
    =>
        /\ \A a \in RegAddrs \ {STATUS} : reg_values[a] = pre.reg_values[a]
        /\ CountersAndFlagsUnchanged
        /\ LogGrew

(***************************************************************************)
(* C24: a W_TX_PAYLOAD clears the TX_REUSE bit of FIFO_STATUS and leaves    *)
(* its other bits; a W_TX_PAYLOAD_NO_ACK leaves FIFO_STATUS unchanged.      *)
(***************************************************************************)
TX_REUSE_BIT == 6

C24_NoAckKeepsReuse ==
    /\ (LastIsTxPayload /\ LastCmd = 160) =>
          reg_values[FIFO_STATUS] =
              <<clear_bit(pre.reg_values[FIFO_STATUS][1], TX_REUSE_BIT)>>
    /\ (LastIsTxPayload /\ LastCmd = 176) =>
          reg_values[FIFO_STATUS] = pre.reg_values[FIFO_STATUS]

(***************************************************************************)
(* C25: after a FLUSH_TX with a payload of 0 or 1 bytes the TX_REUSE and    *)
(* TX_FULL bits of FIFO_STATUS and the TX_FULL bit of STATUS are clear,     *)
(* every other bit of FIFO_STATUS is as before and every other bit of       *)
(* STATUS is the bit of the status byte.                                    *)
(***************************************************************************)
C25_Case == LastIsMatched /\ LastCmd = 225 /\ LastLengthInBounds(0, 1)

C25_FlushTxClearsFlags ==
    C25_Case =>
        /\ \A k \in 0..7 :
              bit_is_set(reg_values[FIFO_STATUS][1], k) =
                  IF k \in {5, 6} THEN 0
                  ELSE bit_is_set(pre.reg_values[FIFO_STATUS][1], k)
        /\ \A k \in 0..7 :
              bit_is_set(reg_values[STATUS][1], k) =
                  IF k = 0 THEN 0 ELSE bit_is_set(LastStatus, k)
        /\ Len(reg_values[FIFO_STATUS]) = 1
        /\ Len(reg_values[STATUS]) = 1

\* a FLUSH_TX that clears a TX_REUSE bit that was set, and the TX_FULL bit
\* of a status byte that has it set
C25_Witness ==
    /\ C25_Case
    /\ bit_is_set(pre.reg_values[FIFO_STATUS][1], 6) = 1
    /\ bit_is_set(reg_values[FIFO_STATUS][1], 6) = 0
    /\ bit_is_set(LastStatus, 0) = 1
    /\ bit_is_set(reg_values[STATUS][1], 0) = 0

(***************************************************************************)
(* C26: a FLUSH_RX returns normally, leaves the RX_FULL bit of FIFO_STATUS  *)
(* clear and appends one FLUSH_RX entry to the log.                         *)
(***************************************************************************)
C26_FlushRxCompletes ==
    (LastIsMatched /\ LastCmd = 226 /\ Len(LastMosiData) = 0) =>
        /\ last.exc = "none"
        /\ bit_is_set(reg_values[FIFO_STATUS][1], 1) = 0
        /\ Len(messages) = Len(pre.messages) + 1
        /\ messages[Len(messages)].cmd = "FLUSH_RX"

(***************************************************************************)
(* C27: a REUSE_TX_PL sets the TX_REUSE bit of FIFO_STATUS, appends one     *)
(* REUSE_TX_PL entry to the log and returns normally.                       *)
(***************************************************************************)
C27_ReuseTxPlLogged ==
    (LastIsMatched /\ LastCmd = 227 /\ Len(LastMosiData) = 0) =>
        /\ bit_is_set(reg_values[FIFO_STATUS][1], TX_REUSE_BIT) = 1
        /\ Len(messages) = Len(pre.messages) + 1
        /\ messages[Len(messages)].cmd = "REUSE_TX_PL"
        /\ last.exc = "none"

(***************************************************************************)
(* The fields of the registers, as the properties of the queries read them. *)
(***************************************************************************)
PwrUp == bit_is_set(reg_values[CONFIG][1], 1)
PrimRx == bit_is_set(reg_values[CONFIG][1], 0)
TxEmpty == bit_is_set(reg_values[FIFO_STATUS][1], 4)
RfPwr == (reg_values[RF_SETUP][1] \div 2) % 4

ModeOfFields ==
    IF PwrUp = 0 THEN "POWER_DOWN"
    ELSE IF PrimRx = 1 THEN "PRX"
    ELSE IF TxEmpty = 1 THEN "STANDBY"
    ELSE "PTX"

(***************************************************************************)
(* C28: get_operational_mode answers POWER_DOWN when CONFIG.PWR_UP is       *)
(* clear; otherwise PRX when CONFIG.PRIM_RX is set; otherwise STANDBY when  *)
(* FIFO_STATUS.TX_EMPTY is set and PTX when it is clear.  With the reset    *)
(* values of the registers the answer is POWER_DOWN.                        *)
(***************************************************************************)
C28_Case == last.op = "get_operational_mode"

C28_OperationalMode ==
    C28_Case =>
        /\ last.result = ModeOfFields
        /\ (/\ reg_values[CONFIG] = REGISTERS[CONFIG].init
            /\ reg_values[FIFO_STATUS] = REGISTERS[FIFO_STATUS].init)
           => last.result = "POWER_DOWN"

\* powered up, transmitter, TX FIFO not empty: the answer is PTX
C28_Witness ==
    /\ C28_Case
    /\ PwrUp = 1
    /\ PrimRx = 0
    /\ TxEmpty = 0
    /\ last.result = "PTX"

(***************************************************************************)
(* C29: get_output_power answers -18dBm, -12dBm, -6dBm and 0dBm for the     *)
(* values 0, 1, 2 and 3 of the RF_PWR field (bits 2:1 of RF_SETUP), and     *)
(* get_uesb_config gives the uESB power constant of that level.             *)
(***************************************************************************)
C29_OutputPower ==
    /\ last.op = "get_output_power" =>
          last.result = <<"-18dBm", "-12dBm", "-6dBm", "0dBm">>[RfPwr + 1]
    /\ last.op = "get_uesb_config" =>
          last.result.tx_output_power =
              <<"UESB_TX_POWER_NEG16DBM", "UESB_TX_POWER_NEG12DBM",
                "UESB_TX_POWER_NEG4DBM", "UESB_TX_POWER_0DBM">>[RfPwr + 1]

(***************************************************************************)
(* C30: in the generated uESB configuration the address of pipe 0 is        *)
(* TX_ADDR when the operational mode is PTX, and RX_ADDR_P0 in every other  *)
(* operational mode.                                                        *)
(***************************************************************************)
C30_Pipe0Address ==
    last.op = "get_uesb_config" =>
        last.result.rx_addr_p0 =
            IF ModeOfFields = "PTX"
            THEN reg_values[TX_ADDR]
            ELSE reg_values[RX_ADDR_P0]

(***************************************************************************)
(* C31: in every reachable state, if the alternate bank is selected then a  *)
(* clone has been detected.                                                 *)
(***************************************************************************)
C31_BankImpliesClone == beken_bank_switch_active => beken_detected

\* the alternate bank selected by an ACTIVATE with the bank-switch byte
C31_Witness ==
    /\ C18_Case
    /\ LastMosiData[1] = BEKEN_BANK_SWITCH_DATA
    /\ ~ pre.bank
    /\ ~ pre.beken
    /\ beken_bank_switch_active
    /\ beken_detected

(***************************************************************************)
(* C32: every entry of the observed-channel list is a channel number in     *)
(* 0..127, and after an accepted write of RF_CH the list holds the value    *)
(* stored in RF_CH, the value get_channel() gives.                          *)
(***************************************************************************)
RF_CHANNEL_MASK == 127

\* get_channel(): RF_CH & RF_CHANNEL_MASK
get_channel(regs) == BitAnd(regs[RF_CH][1], RF_CHANNEL_MASK)

C32_ChannelsAreChannelNumbers ==
    /\ \A k \in 1..Len(used_channels) : used_channels[k] \in 0..127
    /\ AcceptedChannelWrite => Contains(used_channels, get_channel(reg_values))

(***************************************************************************)
(* C33: a call of update made in PRX mode leaves the mode PRX, unless it is *)
(* an R_REGISTER(CONFIG); a W_REGISTER made in PRX mode changes no register *)
(* other than STATUS and, when it addresses a register of the catalog with  *)
(* 1 to 5 bytes, is logged as ignored because of the operational mode.      *)
(***************************************************************************)
LastIsReadOfConfig == LastIsMatched /\ LastCmd = CONFIG

C33_PrxPersists ==
    /\ (LastIsUpdate /\ PreMode = "PRX" /\ ~ LastIsReadOfConfig) =>
          get_operational_mode(reg_values) = "PRX"
    /\ (LastIsWRegister /\ PreMode = "PRX") =>
          /\ \A a \in RegAddrs \ {STATUS} : reg_values[a] = pre.reg_values[a]
          /\ (LastIndex \in RegAddrs /\ LastLengthInBounds(1, 5)) =>
                LastEntryIgnoredForMode

\* a write of CONFIG, made in PRX mode, of a byte with PRIM_RX clear: the
\* mode is still PRX
C33_Witness ==
    /\ LastIsWRegister
    /\ PreMode = "PRX"
    /\ LastIndex = CONFIG
    /\ Len(LastMosiData) = 1
    /\ bit_is_set(LastMosiData[1], 0) = 0
    /\ get_operational_mode(reg_values) = "PRX"
    /\ reg_values[CONFIG] = pre.reg_values[CONFIG]
====
